---- MODULE Spec2Model ----
(***************************************************************************)
(* bun-ready: the policy / baseline / aggregation engine.                  *)
(*                                                                         *)
(* Nine specifications share this module:                                  *)
(*   SpecSeverity     calculateExitCode, PolicyManager.getExitCode and the *)
(*                    overall-severity aggregation of analyzeRepoOverall   *)
(*   SpecMatch        findMatchingRule (policy.ts)                         *)
(*   SpecPolicy       applyPolicy (policy.ts)                              *)
(*   SpecFingerprint  createFindingFingerprint (baseline.ts)               *)
(*   SpecCompare      compareFindings (baseline.ts)                        *)
(*   SpecCli          one run of main() (cli.ts)                           *)
(*   SpecLoad         loadBaseline (baseline.ts)                           *)
(*   SpecSummarize    summarizeSeverity (heuristics.ts)                    *)
(*   SpecPackage      analyzeSinglePackage (analyze.ts)                    *)
(* Each specification draws the inputs of its operations in Init and keeps *)
(* the variables of the others at their idle values.                       *)
(***************************************************************************)
EXTENDS Integers, Sequences, FiniteSets, TLC

VARIABLES
    exSeverity,     \* calculateExitCode: argument severity
    exFailOn,       \* calculateExitCode: argument failOn (Undefined when absent)
    exCode,         \* calculateExitCode: returned code (NoCode before the call)
    exPolicyCode,   \* PolicyManager.getExitCode: returned code (NoCode before the call)
    agScope,        \* analyzeRepoOverall: opts.scope
    agRootSev,      \* severity analyzeSinglePackage gave the root package
    agWsSevs,       \* severities of the workspace packages, in scan order
    agResult,       \* analyzeRepoOverall: overallSeverity (None before the call)
    poFindings,     \* applyPolicy: argument findings
    poRules,        \* applyPolicy: policy.rules
    fmId,           \* findMatchingRule: argument findingId
    fmRules,        \* findMatchingRule: argument rules
    fmResult,       \* findMatchingRule: <<index of the rule returned, 0 for null>>
    fpFinding,      \* createFindingFingerprint: argument finding
    fpPackageName,  \* createFindingFingerprint: argument packageName (Undefined when absent)
    fpResult,       \* createFindingFingerprint: <<fingerprint returned>>
    fpFirst,        \* <<the first fingerprint returned for this finding>>
    fpPhase,        \* "fresh", "first" (fingerprinted), "varied" (then reported
                    \* differently), "second" (then fingerprinted again)
    cmBaseline,     \* compareFindings: argument baseline
    cmCurrent,      \* compareFindings: argument current
    cmResult,       \* compareFindings: <<BaselineComparison returned>>
    pc,             \* main(): "start", "scanned", "loaded", "compared", "exited"
    argv,           \* the command line: cmd, failOn, ruleArgs, maxWarnings, baselineFlags
    configFile,     \* failOn of the repository's bun-ready.config.json (Undefined when unset)
    baselineFile,   \* content of the baseline file
    fileOps,        \* reads and writes of the baseline file so far, in order
    scan,           \* main(): opts, mergedPolicy and res, once analyzeRepoOverall returned
    baselineData,   \* main(): <<loaded baseline>> or Null
    finalResult,    \* main(): <<finalResult>> once the policy was applied
    exitCode,       \* the code the process exited with (NoCode while it runs)
    pkFindings,     \* the findings the heuristics report for one package
    pkInstallOk,    \* summarizeSeverity: argument installOk ("true", "false", "null")
    pkTestOk,       \* summarizeSeverity: argument testOk
    pkSeverity,     \* summarizeSeverity: returned severity (None before the call)
    pkEnv,          \* analyzeSinglePackage: the options and what running bun gives
    pkResult,       \* analyzeSinglePackage: <<returned PackageAnalysis>>
    poResult        \* applyPolicy: <<{modifiedFindings, summary}>> (NoResult before the call)

exitVars == <<exSeverity, exFailOn, exCode, exPolicyCode>>
aggVars == <<agScope, agRootSev, agWsSevs, agResult>>
fmVars == <<fmId, fmRules, fmResult>>
polVars == <<poFindings, poRules, poResult>>
fpVars == <<fpFinding, fpPackageName, fpResult, fpFirst, fpPhase>>
cmVars == <<cmBaseline, cmCurrent, cmResult>>
cliVars == <<pc, argv, configFile, baselineFile, fileOps, scan, baselineData,
             finalResult, exitCode>>
pkgVars == <<pkFindings, pkInstallOk, pkTestOk, pkSeverity, pkEnv, pkResult>>
vars == <<exitVars, aggVars, fmVars, polVars, fpVars, cmVars, cliVars, pkgVars>>

-----------------------------------------------------------------------------
(* Bounds of the model *)

MaxPackages == 3
MaxFindings == 2
MaxRules == 2
MaxDetails == 2
MaxDetailLen == 1
MaxFingerprints == 2
MaxCliRules == 1
MaxCliFindings == 1

-----------------------------------------------------------------------------
(* Shared values *)

\* types.ts: Severity = "green" | "yellow" | "red"
Severities == {"green", "yellow", "red"}

\* JavaScript undefined (an absent optional value)
Undefined == "undefined"

\* types.ts: FailOnPolicy, or undefined
FailOnValues == {Undefined, "green", "yellow", "red"}

None == "none"
\* no exit code yet: a value outside the codes 0, 2 and 3
NoCode == 0 - 1

\* a call that has not returned yet holds no result; a returned one holds one
NoResult == <<>>
Returned(r) == <<r>>

\* an optional object: Null (null or undefined) or Some(object)
Null == <<>>
Some(x) == <<x>>

SeqsUpTo(S, n) == UNION {[1..k -> S] : k \in 0..n}

\* policy.ts: severityOrder, the total order green < yellow < red
severityOrder(s) == CASE s = "green" -> 0 [] s = "yellow" -> 1 [] s = "red" -> 2

-----------------------------------------------------------------------------
(* ci_summary.ts: calculateExitCode *)

calculateExitCode_yellowIs1(severity, failOn) ==
    IF severity = "green" THEN 0
    ELSE IF severity = "red" THEN 3
    ELSE IF failOn = "green" THEN 3
    ELSE IF failOn = "yellow" THEN 0
    ELSE 1

calculateExitCode_yellowIs2(severity, failOn) ==
    IF failOn = Undefined
    THEN IF severity = "green" THEN 0 ELSE IF severity = "yellow" THEN 2 ELSE 3
    ELSE IF failOn = "green"
    THEN IF severity = "green" THEN 0 ELSE 3
    ELSE IF failOn = "yellow"
    THEN IF severity = "red" THEN 3 ELSE IF severity = "yellow" THEN 2 ELSE 0
    ELSE IF severity = "green" THEN 0 ELSE IF severity = "yellow" THEN 2 ELSE 3

calculateExitCode(severity, failOn) ==
    IF failOn = Undefined
    THEN IF severity = "green" THEN 0 ELSE IF severity = "yellow" THEN 2 ELSE 3
    ELSE IF failOn = "green"
    THEN IF severity = "green" THEN 0 ELSE 3
    ELSE IF failOn = "yellow"
    THEN IF severity = "red" THEN 3 ELSE 0
    ELSE IF severity = "green" THEN 0 ELSE IF severity = "yellow" THEN 2 ELSE 3

\* policy.ts 487-502: PolicyManager.getExitCode(verdict, failOn)
getExitCode(verdict, failOn) ==
    IF failOn = "yellow" /\ verdict = "yellow" THEN 3
    ELSE IF verdict = "red" THEN 3
    ELSE IF verdict = "yellow" THEN 2
    ELSE 0

-----------------------------------------------------------------------------
(* analyze.ts: aggregateSeverity and the severity part of analyzeRepoOverall *)

RepoPath == "/repo"

\* the path of the i-th workspace package
WsPath(i) == <<RepoPath, i>>

\* analyze.ts 344-375: the analysed packages, root first, as scope selects
PackagesOf(scope, rootSev, wsSevs) ==
    LET root == <<[path |-> RepoPath, severity |-> rootSev]>>
        ws == [i \in 1..Len(wsSevs) |-> [path |-> WsPath(i), severity |-> wsSevs[i]]]
    IN IF scope = "root" THEN root
       ELSE IF scope = "packages" THEN ws
       ELSE root \o ws

aggregateSeverity(packages, overallSeverity) ==
    IF overallSeverity = "red" THEN "red"
    ELSE IF overallSeverity = "yellow" THEN "yellow"
    ELSE IF \E i \in 1..Len(packages) : packages[i].severity = "red" THEN "red"
    ELSE IF \E i \in 1..Len(packages) : packages[i].severity = "yellow" THEN "yellow"
    ELSE "green"

\* analyze.ts 377-386: the root analysis' severity, green when the root was not scanned
RootSeverityOf(packages) ==
    IF \E i \in 1..Len(packages) : packages[i].path = RepoPath
    THEN LET i == CHOOSE j \in 1..Len(packages) :
                      /\ packages[j].path = RepoPath
                      /\ \A k \in 1..(j - 1) : packages[k].path # RepoPath
         IN packages[i].severity
    ELSE "green"

\* analyze.ts 377-389
OverallSeverityOf(packages) == aggregateSeverity(packages, RootSeverityOf(packages))

-----------------------------------------------------------------------------
(* types.ts: Finding, PolicyRule *)

\* A string is a sequence of UTF-16 code units.
CodeUnit == [A |-> 65, B |-> 66, a |-> 97, b |-> 98, space |-> 32, bar |-> 124]
ChA == CodeUnit.A
ChB == CodeUnit.B
Cha == CodeUnit.a
Chb == CodeUnit.b
ChSpace == CodeUnit.space
ChBar == CodeUnit.bar

FindingIds == {"deps.native_addons", "scripts.lifecycle"}

\* title, details and hints are presentation data, fixed per finding id here
TitleOf(id) == IF id = "deps.native_addons" THEN "Native addons" ELSE "Lifecycle scripts"
DetailsOf(id) == IF id = "deps.native_addons" THEN <<<<Cha>>>> ELSE <<<<Chb>>>>
HintsOf(id) == IF id = "deps.native_addons" THEN <<"Check addons">> ELSE <<"Remove script">>

FindingWith(id, severity, details) ==
    [id |-> id, title |-> TitleOf(id), severity |-> severity,
     details |-> details, hints |-> HintsOf(id)]

Finding(id, severity) == FindingWith(id, severity, DetailsOf(id))

Findings == {Finding(id, sev) : id \in FindingIds, sev \in Severities}

Wildcard == "*"
RuleIds == FindingIds \cup {Wildcard}
Actions == {"fail", "warn", "off", "ignore"}
SeverityChanges == {"upgrade", "downgrade", "same"}

\* PolicyRule {id, action?, severityChange?}; an absent field is Undefined
PolicyRules ==
    [id : RuleIds, action : Actions \cup {Undefined},
     severityChange : SeverityChanges \cup {Undefined}]

-----------------------------------------------------------------------------
(* policy.ts: applySeverityChange, findMatchingRule, applyPolicy *)

applySeverityChange(originalSeverity, change) ==
    IF change = "same" THEN originalSeverity
    ELSE IF change = "upgrade"
    THEN IF originalSeverity = "green" THEN "yellow"
         ELSE IF originalSeverity = "yellow" THEN "red"
         ELSE "red"
    ELSE IF originalSeverity = "red" THEN "yellow"
         ELSE IF originalSeverity = "yellow" THEN "green"
         ELSE "green"

\* the least index satisfying P, 0 when there is none
FirstIndex(n, P(_)) ==
    IF \E i \in 1..n : P(i)
    THEN CHOOSE i \in 1..n : P(i) /\ \A j \in 1..(i - 1) : ~P(j)
    ELSE 0

findMatchingRule_firstOnMatch(findingId, rules) ==
    LET exact(i) == rules[i].id = findingId
        wild(i) == rules[i].id = Wildcard
    IN IF FirstIndex(Len(rules), exact) # 0 THEN 1 ELSE FirstIndex(Len(rules), wild)

findMatchingRule_singlePass(findingId, rules) ==
    LET hit(i) == rules[i].id = findingId \/ rules[i].id = Wildcard
    IN FirstIndex(Len(rules), hit)

\* The index in rules of the rule returned, 0 for null.
findMatchingRule(findingId, rules) ==
    LET exact(i) == rules[i].id = findingId
        wild(i) == rules[i].id = Wildcard
        e == FirstIndex(Len(rules), exact)
    IN IF e # 0 THEN e ELSE FirstIndex(Len(rules), wild)

\* policy.ts 260: the rule disables the finding
IsDisabling_offOnly(rule) == rule.action = "off"

IsDisabling(rule) == rule.action = "off" \/ rule.action = "ignore"

\* the accumulators of applyPolicy before its loop (policy.ts 236-241)
EmptyPolicyAcc ==
    [modifiedFindings |-> <<>>, appliedRules |-> <<>>, findingsModified |-> 0,
     findingsDisabled |-> 0, severityUpgraded |-> 0, severityDowngraded |-> 0]

RuleEffect_actionLast(finding, rule) ==
    LET changed == IF rule.severityChange # Undefined
                   THEN applySeverityChange(finding.severity, rule.severityChange)
                   ELSE finding.severity
        newSeverity == IF rule.action = "fail" THEN "red"
                       ELSE IF rule.action = "warn" THEN "yellow"
                       ELSE changed
    IN [newSeverity |-> newSeverity,
        up |-> IF severityOrder(newSeverity) > severityOrder(finding.severity) THEN 1 ELSE 0,
        down |-> IF severityOrder(newSeverity) < severityOrder(finding.severity) THEN 1 ELSE 0,
        wasModified |-> TRUE]

\* policy.ts 267-307: the severity a non-suppressing rule gives a finding
\* and what it adds to the counters
RuleEffect(finding, rule) ==
    IF rule.severityChange # Undefined
    THEN LET forced == IF rule.action = "fail" THEN "red"
                       ELSE IF rule.action = "warn" THEN "yellow"
                       ELSE finding.severity
         IN [newSeverity |-> applySeverityChange(forced, rule.severityChange),
             up |-> IF rule.severityChange = "upgrade" THEN 1 ELSE 0,
             down |-> IF rule.severityChange = "downgrade" THEN 1 ELSE 0,
             wasModified |-> TRUE]
    ELSE IF rule.action = "fail" \/ rule.action = "warn"
    THEN LET newSeverity == IF rule.action = "fail" THEN "red" ELSE "yellow"
             changed == newSeverity # finding.severity
             higher == severityOrder(newSeverity) > severityOrder(finding.severity)
         IN [newSeverity |-> newSeverity,
             up |-> IF changed /\ higher THEN 1 ELSE 0,
             down |-> IF changed /\ ~higher THEN 1 ELSE 0,
             wasModified |-> TRUE]
    ELSE [newSeverity |-> finding.severity, up |-> 0, down |-> 0, wasModified |-> FALSE]

EmitFinding_titleOnly(finding, newSeverity) ==
    [finding EXCEPT !.severity = newSeverity, !.details = <<>>, !.hints = <<>>]

\* policy.ts 315-318: {...finding, severity: newSeverity}
EmitFinding(finding, newSeverity) == [finding EXCEPT !.severity = newSeverity]

\* policy.ts 244-322: one iteration of the loop over findings
ApplyPolicyStep(acc, finding, rules) ==
    LET r == findMatchingRule(finding.id, rules)
    IN IF r = 0
       THEN [acc EXCEPT !.modifiedFindings = Append(@, finding)]
       ELSE LET rule == rules[r]
                applied == [findingId |-> finding.id,
                            action |-> IF rule.action # Undefined THEN rule.action ELSE "ignore",
                            originalSeverity |-> finding.severity,
                            newSeverity |-> Undefined]
            IN IF IsDisabling(rule)
               THEN [acc EXCEPT !.findingsDisabled = @ + 1,
                                !.appliedRules = Append(@, applied)]
               ELSE LET eff == RuleEffect(finding, rule)
                    IN [acc EXCEPT
                          !.severityUpgraded = @ + eff.up,
                          !.severityDowngraded = @ + eff.down,
                          !.findingsModified = @ + (IF eff.wasModified THEN 1 ELSE 0),
                          !.modifiedFindings =
                              Append(@, EmitFinding(finding, eff.newSeverity)),
                          !.appliedRules =
                              Append(@, [applied EXCEPT !.newSeverity = eff.newSeverity])]

RECURSIVE ApplyPolicyLoop(_, _, _, _)
ApplyPolicyLoop(acc, findings, rules, i) ==
    IF i > Len(findings) THEN acc
    ELSE ApplyPolicyLoop(ApplyPolicyStep(acc, findings[i], rules), findings, rules, i + 1)

applyPolicy_newestFirst(findings, rules) ==
    LET acc == ApplyPolicyLoop(EmptyPolicyAcc, findings, rules, 1)
        n == Len(acc.modifiedFindings)
        m == Len(acc.appliedRules)
    IN [modifiedFindings |-> [i \in 1..n |-> acc.modifiedFindings[n + 1 - i]],
        summary |-> [rulesApplied |-> Len(acc.appliedRules),
                     findingsModified |-> acc.findingsModified,
                     findingsDisabled |-> acc.findingsDisabled,
                     severityUpgraded |-> acc.severityUpgraded,
                     severityDowngraded |-> acc.severityDowngraded,
                     rules |-> [i \in 1..m |-> acc.appliedRules[m + 1 - i]]]]

\* applyPolicy(findings, {rules}) with no thresholds and no metrics
applyPolicy(findings, rules) ==
    LET acc == ApplyPolicyLoop(EmptyPolicyAcc, findings, rules, 1)
    IN [modifiedFindings |-> acc.modifiedFindings,
        summary |-> [rulesApplied |-> Len(acc.appliedRules),
                     findingsModified |-> acc.findingsModified,
                     findingsDisabled |-> acc.findingsDisabled,
                     severityUpgraded |-> acc.severityUpgraded,
                     severityDowngraded |-> acc.severityDowngraded,
                     rules |-> acc.appliedRules]]


-----------------------------------------------------------------------------
(* baseline.ts: createFindingFingerprint *)

Chars == {ChA, ChB, Cha, Chb, ChSpace}
Strings == SeqsUpTo(Chars, MaxDetailLen)

\* String.prototype.toLowerCase on the code units A-Z
LowerChar(c) == IF c >= 65 /\ c <= 90 THEN c + 32 ELSE c
toLowerCase(s) == [i \in 1..Len(s) |-> LowerChar(s[i])]

\* String.prototype.trim: drop leading and trailing white space
RECURSIVE trimStart(_)
trimStart(s) == IF s # <<>> /\ Head(s) = ChSpace THEN trimStart(Tail(s)) ELSE s
RECURSIVE trimEnd(_)
trimEnd(s) ==
    IF s # <<>> /\ s[Len(s)] = ChSpace THEN trimEnd(SubSeq(s, 1, Len(s) - 1)) ELSE s
trim(s) == trimEnd(trimStart(s))

\* the default comparison of Array.prototype.sort: by UTF-16 code units
RECURSIVE StringLess(_, _)
StringLess(a, b) ==
    IF b = <<>> THEN FALSE
    ELSE IF a = <<>> THEN TRUE
    ELSE IF Head(a) # Head(b) THEN Head(a) < Head(b)
    ELSE StringLess(Tail(a), Tail(b))

RECURSIVE InsertSorted(_, _)
InsertSorted(sorted, x) ==
    IF sorted = <<>> THEN <<x>>
    ELSE IF StringLess(x, Head(sorted)) THEN <<x>> \o sorted
    ELSE <<Head(sorted)>> \o InsertSorted(Tail(sorted), x)

\* Array.prototype.sort() with no comparator
RECURSIVE sort(_)
sort(list) == IF list = <<>> THEN <<>> ELSE InsertSorted(sort(Tail(list)), Head(list))

\* Array.prototype.join("|")
RECURSIVE join(_)
join(list) ==
    IF list = <<>> THEN <<>>
    ELSE IF Len(list) = 1 THEN list[1]
    ELSE list[1] \o <<ChBar>> \o join(Tail(list))

\* createHash("md5").update(s).digest("hex"), taken as collision-free: the
\* digest of a string is a value that names that string and nothing else
md5(s) == <<"md5", s>>

\* baseline.ts 24-27: normalizedDetails
normalizeDetails_noLowerCase(details) ==
    join(sort([i \in 1..Len(details) |-> trim(details[i])]))

normalizeDetails(details) ==
    join(sort([i \in 1..Len(details) |-> toLowerCase(trim(details[i]))]))

createFindingFingerprint(finding, packageName) ==
    [id |-> finding.id,
     packageName |-> IF packageName = Undefined \/ packageName = "" THEN "root"
                     ELSE packageName,
     severity |-> finding.severity,
     detailsHash |-> md5(normalizeDetails(finding.details))]

-----------------------------------------------------------------------------
(* baseline.ts: compareFindings *)

compareKey_noPackage(fp) == <<fp.id, ":", fp.detailsHash>>

\* baseline.ts 76, 81: `${fp.id}:${fp.packageName}:${fp.detailsHash}`. Finding
\* ids, package names and hex digests hold no ":", so the string determines
\* its three parts and is kept as the sequence of its parts.
compareKey(fp) == <<fp.id, ":", fp.packageName, ":", fp.detailsHash>>

\* A Map is the sequence of its entries in insertion order.
MapHas(map, key) == \E i \in 1..Len(map) : map[i].key = key
MapGet(map, key) == map[CHOOSE i \in 1..Len(map) : map[i].key = key].value
MapSet_keepFirst(map, key, value) ==
    IF MapHas(map, key) THEN map
    ELSE Append(map, [key |-> key, value |-> value])

\* Map.prototype.set: a present key keeps its place and takes the new value
MapSet(map, key, value) ==
    IF MapHas(map, key)
    THEN [i \in 1..Len(map) |-> IF map[i].key = key THEN [key |-> key, value |-> value]
                                 ELSE map[i]]
    ELSE Append(map, [key |-> key, value |-> value])

\* baseline.ts 75-83: index a fingerprint list by key
RECURSIVE IndexByKey(_, _, _)
IndexByKey(list, i, map) ==
    IF i > Len(list) THEN map
    ELSE IndexByKey(list, i + 1, MapSet(map, compareKey(list[i]), list[i]))

ValuesOf(entries) == [i \in 1..Len(entries) |-> entries[i].value]

IsRegressionSeverity_yellowToo(severity) == severity \in {"yellow", "red"}

\* baseline.ts 119, 128: the severity that makes a new or changed finding a regression
IsRegressionSeverity(severity) == severity = "red"

compareFindings_currentUnindexed(baseline, current) ==
    LET baselineMap == IndexByKey(baseline, 1, <<>>)
        currentMap == [i \in 1..Len(current) |->
                          [key |-> compareKey(current[i]), value |-> current[i]]]
        notInBaseline(e) == ~MapHas(baselineMap, e.key)
        notInCurrent(e) == ~MapHas(currentMap, e.key)
        changed(e) == /\ MapHas(baselineMap, e.key)
                      /\ e.value.severity # MapGet(baselineMap, e.key).severity
        newFindings == ValuesOf(SelectSeq(currentMap, notInBaseline))
        resolvedFindings == ValuesOf(SelectSeq(baselineMap, notInCurrent))
        changedEntries == SelectSeq(currentMap, changed)
        severityChanges ==
            [i \in 1..Len(changedEntries) |->
                [fingerprint |-> changedEntries[i].value,
                 oldSeverity |-> MapGet(baselineMap, changedEntries[i].key).severity,
                 newSeverity |-> changedEntries[i].value.severity]]
        isRed(f) == IsRegressionSeverity(f.severity)
        toRed(c) == IsRegressionSeverity(c.newSeverity)
        newRedFindings == SelectSeq(newFindings, isRed)
        upgradedToRed == SelectSeq(severityChanges, toRed)
        reasonNew == IF Len(newRedFindings) > 0
                     THEN <<[text |-> "New RED findings detected",
                             ids |-> [i \in 1..Len(newRedFindings) |-> newRedFindings[i].id]]>>
                     ELSE <<>>
        reasonUp == IF Len(upgradedToRed) > 0
                    THEN <<[text |-> "Severity upgraded to RED",
                            ids |-> [i \in 1..Len(upgradedToRed) |->
                                        upgradedToRed[i].fingerprint.id]]>>
                    ELSE <<>>
    IN [newFindings |-> newFindings,
        resolvedFindings |-> resolvedFindings,
        severityChanges |-> severityChanges,
        isRegression |-> Len(newRedFindings) > 0 \/ Len(upgradedToRed) > 0,
        regressionReasons |-> reasonNew \o reasonUp]

\* baseline.ts 67-145
compareFindings(baseline, current) ==
    LET baselineMap == IndexByKey(baseline, 1, <<>>)
        currentMap == IndexByKey(current, 1, <<>>)
        notInBaseline(e) == ~MapHas(baselineMap, e.key)
        notInCurrent(e) == ~MapHas(currentMap, e.key)
        changed(e) == /\ MapHas(baselineMap, e.key)
                      /\ e.value.severity # MapGet(baselineMap, e.key).severity
        newFindings == ValuesOf(SelectSeq(currentMap, notInBaseline))
        resolvedFindings == ValuesOf(SelectSeq(baselineMap, notInCurrent))
        changedEntries == SelectSeq(currentMap, changed)
        severityChanges ==
            [i \in 1..Len(changedEntries) |->
                [fingerprint |-> changedEntries[i].value,
                 oldSeverity |-> MapGet(baselineMap, changedEntries[i].key).severity,
                 newSeverity |-> changedEntries[i].value.severity]]
        isRed(f) == IsRegressionSeverity(f.severity)
        toRed(c) == IsRegressionSeverity(c.newSeverity)
        newRedFindings == SelectSeq(newFindings, isRed)
        upgradedToRed == SelectSeq(severityChanges, toRed)
        reasonNew == IF Len(newRedFindings) > 0
                     THEN <<[text |-> "New RED findings detected",
                             ids |-> [i \in 1..Len(newRedFindings) |-> newRedFindings[i].id]]>>
                     ELSE <<>>
        reasonUp == IF Len(upgradedToRed) > 0
                    THEN <<[text |-> "Severity upgraded to RED",
                            ids |-> [i \in 1..Len(upgradedToRed) |->
                                        upgradedToRed[i].fingerprint.id]]>>
                    ELSE <<>>
    IN [newFindings |-> newFindings,
        resolvedFindings |-> resolvedFindings,
        severityChanges |-> severityChanges,
        isRegression |-> Len(newRedFindings) > 0 \/ Len(upgradedToRed) > 0,
        regressionReasons |-> reasonNew \o reasonUp]

-----------------------------------------------------------------------------
(* heuristics.ts: maxSeverity, summarizeSeverity *)

maxSeverity(a, b) ==
    IF a = "red" \/ b = "red" THEN "red"
    ELSE IF a = "yellow" \/ b = "yellow" THEN "yellow"
    ELSE "green"

RECURSIVE MaxFindingSeverity(_, _, _)
MaxFindingSeverity(findings, i, sev) ==
    IF i > Len(findings) THEN sev
    ELSE MaxFindingSeverity(findings, i + 1, maxSeverity(sev, findings[i].severity))

\* installOk and testOk are "true", "false" or "null"
summarizeSeverity_nullFails(findings, installOk, testOk) ==
    LET sev == MaxFindingSeverity(findings, 1, "green")
    IN IF installOk # "true" \/ testOk # "true" THEN "red" ELSE sev

summarizeSeverity(findings, installOk, testOk) ==
    LET sev == MaxFindingSeverity(findings, 1, "green")
    IN IF installOk = "false" \/ testOk = "false" THEN "red" ELSE sev

-----------------------------------------------------------------------------
(* cli.ts: parseArgs, and the helpers main() calls *)

\* A --rule argument is the sequence of its parts, "=" and ":" among them.
IsSeparator(t) == t = "=" \/ t = ":"

\* arg.split(/[=:]/): the pieces between separators; a piece is one part or ""
RECURSIVE SplitPieces(_, _)
SplitPieces(tokens, piece) ==
    IF tokens = <<>> THEN <<piece>>
    ELSE IF IsSeparator(Head(tokens)) THEN <<piece>> \o SplitPieces(Tail(tokens), "")
    ELSE SplitPieces(Tail(tokens), Head(tokens))

\* arg.split(/[=:]/, 2): at most the first two pieces
split2(tokens) ==
    LET pieces == SplitPieces(tokens, "")
    IN IF Len(pieces) > 2 THEN SubSeq(pieces, 1, 2) ELSE pieces

\* policy.ts 53-78: the rule one --rule argument gives, <<>> when it is skipped
parseRuleArg(arg) ==
    LET parts == split2(arg)
    IN IF Len(parts) # 2 THEN <<>>
       ELSE IF parts[1] = "" \/ parts[2] = "" THEN <<>>
       ELSE IF parts[2] \in {"fail", "warn", "off", "ignore"}
       THEN <<[id |-> parts[1], action |-> parts[2], severityChange |-> Undefined]>>
       ELSE IF parts[2] \in {"upgrade", "downgrade", "same"}
       THEN <<[id |-> parts[1], action |-> Undefined, severityChange |-> parts[2]]>>
       ELSE <<>>

RECURSIVE parseRuleArgs(_)
parseRuleArgs(ruleArgs) ==
    IF ruleArgs = <<>> THEN <<>>
    ELSE parseRuleArg(Head(ruleArgs)) \o parseRuleArgs(Tail(ruleArgs))

BaselinePath == "baseline.json"

RECURSIVE parseBaselineFlags_baselineUpdates(_, _)
parseBaselineFlags_baselineUpdates(flags, baseline) ==
    IF flags = <<>> THEN baseline
    ELSE IF Head(flags) = "--baseline"
    THEN parseBaselineFlags_baselineUpdates(Tail(flags),
            Some([file |-> BaselinePath, update |-> TRUE]))
    ELSE parseBaselineFlags_baselineUpdates(Tail(flags),
            IF baseline = Null THEN Some([file |-> "", update |-> TRUE])
            ELSE Some([baseline[1] EXCEPT !.update = TRUE]))

\* cli.ts 153-164: the --baseline <file> and --update-baseline flags, in order
RECURSIVE parseBaselineFlags(_, _)
parseBaselineFlags(flags, baseline) ==
    IF flags = <<>> THEN baseline
    ELSE IF Head(flags) = "--baseline"
    THEN parseBaselineFlags(Tail(flags), Some([file |-> BaselinePath, update |-> FALSE]))
    ELSE parseBaselineFlags(Tail(flags),
            IF baseline = Null THEN Some([file |-> "", update |-> TRUE])
            ELSE Some([baseline[1] EXCEPT !.update = TRUE]))

\* cli.ts 49-226: the options main() reads
parseArgs(args) ==
    LET baseline == parseBaselineFlags(args.baselineFlags, Null)
        hasPolicy == Len(args.ruleArgs) > 0 \/ args.maxWarnings # Null
    IN [failOn |-> args.failOn,
        policy |-> IF hasPolicy
                   THEN Some([rules |-> IF Len(args.ruleArgs) > 0
                                        THEN Some(parseRuleArgs(args.ruleArgs))
                                        ELSE Null,
                              thresholds |-> IF args.maxWarnings # Null
                                             THEN Some([maxWarnings |-> args.maxWarnings[1]])
                                             ELSE Null])
                   ELSE Null,
        baseline |-> IF baseline # Null /\ (baseline[1].file # "" \/ baseline[1].update)
                     THEN baseline ELSE Null]

\* config.ts mergeConfigWithOpts(null, {failOn}): the config main() uses
mergeConfigWithOpts(config, failOn) ==
    IF config = Null /\ failOn = Undefined THEN Null
    ELSE LET base == IF config = Null THEN [failOn |-> Undefined] ELSE config[1]
         IN Some(IF failOn # Undefined THEN [base EXCEPT !.failOn = failOn] ELSE base)

\* policy.ts mergePolicyConfigs(cliPolicy, undefined)
mergePolicyConfigs(cliPolicy) ==
    IF cliPolicy = Null THEN Null
    ELSE LET rules == IF cliPolicy[1].rules # Null /\ Len(cliPolicy[1].rules[1]) > 0
                      THEN cliPolicy[1].rules ELSE Null
             thresholds == cliPolicy[1].thresholds
         IN IF rules = Null /\ thresholds = Null THEN Null
            ELSE Some([rules |-> rules, thresholds |-> thresholds])

\* A file is absent, holds text that is no JSON, or holds a JSON value: an
\* object with the fields version, timestamp and findings, each of some JSON
\* type or missing ("undefined"), or a value that is no object (isObject FALSE).
JsonUndefined == [type |-> "undefined", value |-> ""]
JsonNumber == [type |-> "number", value |-> ""]
JsonString(v) == [type |-> "string", value |-> v]
JsonNoList == [type |-> "undefined", value |-> <<>>]
JsonObjectNoList == [type |-> "object", value |-> <<>>]
JsonArray(list) == [type |-> "array", value |-> list]

FileContent(kind, isObject, version, timestamp, findings) ==
    [kind |-> kind, isObject |-> isObject, version |-> version,
     timestamp |-> timestamp, findings |-> findings]

AbsentFile == FileContent("absent", FALSE, JsonUndefined, JsonUndefined, JsonNoList)
NotJsonFile == FileContent("notJson", FALSE, JsonUndefined, JsonUndefined, JsonNoList)

\* baseline.ts 150-156: JSON.stringify of a BaselineData
BaselineJson(data) ==
    FileContent("json", TRUE, JsonString(data.version), JsonString(data.timestamp),
                JsonArray(data.findings))

\* baseline.ts 165-180: the try block of loadBaseline. fs.readFile rejects
\* when the file is absent and JSON.parse throws when the text is no JSON.
TryLoadBaseline(content) ==
    IF content.kind = "absent" \/ content.kind = "notJson"
    THEN [threw |-> TRUE, data |-> Null]
    ELSE IF /\ content.isObject
            /\ content.version.type = "string"
            /\ content.timestamp.type = "string"
            /\ content.findings.type = "array"
    THEN [threw |-> FALSE,
          data |-> Some([version |-> content.version.value,
                         timestamp |-> content.timestamp.value,
                         findings |-> content.findings.value])]
    ELSE [threw |-> FALSE, data |-> Null]

loadBaseline_noCatch(content) == TryLoadBaseline(content)

\* baseline.ts 161-184: loadBaseline; the catch returns null
loadBaseline(content) ==
    IF TryLoadBaseline(content).threw THEN [threw |-> FALSE, data |-> Null]
    ELSE TryLoadBaseline(content)

\* cli.ts 348-357: allFindings and their fingerprints
RECURSIVE PackageFindings(_)
PackageFindings(packages) ==
    IF packages = <<>> THEN <<>>
    ELSE Head(packages).findings \o PackageFindings(Tail(packages))

CurrentFingerprints(result) ==
    LET allFindings == result.findings \o PackageFindings(result.packages)
    IN [i \in 1..Len(allFindings) |-> createFindingFingerprint(allFindings[i], Undefined)]

\* cli.ts 452: config?.failOn || opts.failOn
EffectiveFailOn(config, opts) ==
    IF config # Null /\ config[1].failOn # Undefined THEN config[1].failOn ELSE opts.failOn

-----------------------------------------------------------------------------
(* analyze.ts: what analyzeRepoOverall returns for a repository *)

\* analyzeSinglePackage 165-267: the findings of the heuristics, with the
\* install step's outcome and no test step
PackageAnalysis(name, path, findings, installOk) ==
    [name |-> name, path |-> path, findings |-> findings,
     severity |-> summarizeSeverity(findings, installOk, "null")]

\* analyze.ts 299-326: the repository has no package.json
NoPackageJsonResult ==
    [severity |-> "red",
     findings |-> <<[id |-> "repo.no_package_json", title |-> "Missing package.json",
                     severity |-> "red", details |-> <<<<ChA>>>>,
                     hints |-> <<"Run bun-ready in a Node.js project root">>]>>,
     packages |-> <<>>,
     config |-> Undefined]

\* analyze.ts 329-428, scope "all": root first, then the workspace packages
OverallResult(rootFindings, wsFindings, installOk) ==
    LET root == PackageAnalysis("root-app", RepoPath, rootFindings, installOk)
        packages == <<root>> \o
                    [i \in 1..Len(wsFindings) |->
                        PackageAnalysis("pkg1", WsPath(i), wsFindings[i], installOk)]
    IN [severity |-> OverallSeverityOf(packages),
        findings |-> root.findings,
        packages |-> packages,
        config |-> Undefined]

-----------------------------------------------------------------------------
(* analyze.ts: runBunInstallDryRun, runBunTest, analyzeSinglePackage *)

\* What the scan options and the machine give for one package: the
\* --no-install and --no-test flags, whether the test script runs bun test,
\* whether the bun binary is found, whether bun install --dry-run and bun test
\* exit with 0, and whether the install log names blocked lifecycle scripts
\* or trusted dependencies.
Envs ==
    [runInstall : BOOLEAN, runTest : BOOLEAN, hasBunTest : BOOLEAN,
     bunAvailable : BOOLEAN, installExitsZero : BOOLEAN, testExitsZero : BOOLEAN,
     blockedDeps : BOOLEAN, trustedDeps : BOOLEAN]

IdleEnv ==
    [runInstall |-> FALSE, runTest |-> FALSE, hasBunTest |-> FALSE,
     bunAvailable |-> TRUE, installExitsZero |-> TRUE, testExitsZero |-> TRUE,
     blockedDeps |-> FALSE, trustedDeps |-> FALSE]

SkipReason == "Bun is not installed"

\* analyze.ts 63-113
runBunInstallDryRun(env) ==
    IF ~env.bunAvailable
    THEN [ok |-> FALSE, skipReason |-> Some(SkipReason),
          blockedDeps |-> FALSE, trustedDeps |-> FALSE]
    ELSE [ok |-> env.installExitsZero, skipReason |-> Null,
          blockedDeps |-> env.blockedDeps, trustedDeps |-> env.trustedDeps]

\* analyze.ts 127-148
runBunTest(env) ==
    IF ~env.bunAvailable
    THEN [ok |-> FALSE, skipReason |-> Some(SkipReason)]
    ELSE [ok |-> env.testExitsZero, skipReason |-> Null]

BlockedScriptsFinding ==
    [id |-> "install.blocked_scripts", title |-> "Lifecycle scripts blocked by Bun",
     severity |-> "red", details |-> <<<<Cha>>>>, hints |-> <<"Add to trustedDependencies">>]

TrustedDepsFinding ==
    [id |-> "install.trusted_deps",
     title |-> "Trusted dependencies mentioned in install output",
     severity |-> "yellow", details |-> <<<<Chb>>>>, hints |-> <<"Review trustedDependencies">>]

OkOf(ok) == IF ok THEN "true" ELSE "false"

\* analyze.ts 165-267: heuristicFindings are the filtered findings of the
\* heuristics; the result keeps findings, install, test and severity
analyzeSinglePackage(heuristicFindings, env) ==
    LET installResult == runBunInstallDryRun(env)
        install == IF env.runInstall
                   THEN Some([ok |-> installResult.ok, skipReason |-> installResult.skipReason])
                   ELSE Null
        installOk == IF env.runInstall THEN OkOf(installResult.ok) ELSE "null"
        findings == heuristicFindings
                    \o (IF env.runInstall /\ installResult.blockedDeps
                        THEN <<BlockedScriptsFinding>> ELSE <<>>)
                    \o (IF env.runInstall /\ installResult.trustedDeps
                        THEN <<TrustedDepsFinding>> ELSE <<>>)
        runsTest == env.runTest /\ env.hasBunTest
        testResult == runBunTest(env)
        test == IF runsTest
                THEN Some([ok |-> testResult.ok, skipReason |-> testResult.skipReason])
                ELSE Null
        testOk == IF runsTest THEN OkOf(testResult.ok) ELSE "null"
    IN [findings |-> findings, install |-> install, test |-> test,
        severity |-> summarizeSeverity(findings, installOk, testOk)]

-----------------------------------------------------------------------------
(* Idle values: what a specification leaves the other components at *)

ExitIdle ==
    /\ exSeverity = "green"
    /\ exFailOn = Undefined
    /\ exCode = NoCode
    /\ exPolicyCode = NoCode
AggIdle == agScope = "root" /\ agRootSev = "green" /\ agWsSevs = <<>> /\ agResult = None
FmIdle == fmId = "" /\ fmRules = <<>> /\ fmResult = NoResult
PolIdle == poFindings = <<>> /\ poRules = <<>> /\ poResult = NoResult
FpIdle ==
    /\ fpFinding = FindingWith("deps.native_addons", "green", <<>>)
    /\ fpPackageName = Undefined
    /\ fpResult = NoResult
    /\ fpFirst = NoResult
    /\ fpPhase = "fresh"
CmIdle == cmBaseline = <<>> /\ cmCurrent = <<>> /\ cmResult = NoResult
PkgIdle ==
    /\ pkFindings = <<>>
    /\ pkInstallOk = "null"
    /\ pkTestOk = "null"
    /\ pkSeverity = None
    /\ pkEnv = IdleEnv
    /\ pkResult = NoResult
CliIdle ==
    /\ pc = "start"
    /\ argv = [cmd |-> "", failOn |-> Undefined, ruleArgs |-> <<>>,
               maxWarnings |-> Null, baselineFlags |-> <<>>]
    /\ configFile = Undefined
    /\ baselineFile = AbsentFile
    /\ fileOps = <<>>
    /\ scan = Null
    /\ baselineData = Null
    /\ finalResult = Null
    /\ exitCode = NoCode

-----------------------------------------------------------------------------
(* SpecSeverity *)

InitSeverity ==
    /\ exSeverity \in Severities
    /\ exFailOn \in FailOnValues
    /\ exCode = NoCode
    /\ exPolicyCode = NoCode
    /\ agScope \in {"root", "packages", "all"}
    /\ agRootSev \in Severities
    /\ agWsSevs \in SeqsUpTo(Severities, MaxPackages)
    /\ agResult = None
    /\ FmIdle
    /\ PolIdle
    /\ FpIdle
    /\ CmIdle
    /\ CliIdle
    /\ PkgIdle

CalculateExitCode ==
    /\ exCode = NoCode
    /\ exCode' = calculateExitCode(exSeverity, exFailOn)
    /\ UNCHANGED <<exSeverity, exFailOn, exPolicyCode>>
    /\ UNCHANGED <<aggVars, fmVars, polVars, fpVars, cmVars, cliVars, pkgVars>>

\* policy.ts 487-502, called with the same verdict and failOn
GetExitCode ==
    /\ exPolicyCode = NoCode
    /\ exPolicyCode' = getExitCode(exSeverity, exFailOn)
    /\ UNCHANGED <<exSeverity, exFailOn, exCode>>
    /\ UNCHANGED <<aggVars, fmVars, polVars, fpVars, cmVars, cliVars, pkgVars>>

AnalyzeOverallSeverity ==
    /\ agResult = None
    /\ agResult' = OverallSeverityOf(PackagesOf(agScope, agRootSev, agWsSevs))
    /\ UNCHANGED <<agScope, agRootSev, agWsSevs, exitVars, fmVars, polVars, fpVars, cmVars, cliVars, pkgVars>>

NextSeverity == CalculateExitCode \/ GetExitCode \/ AnalyzeOverallSeverity

SpecSeverity == InitSeverity /\ [][NextSeverity]_vars

agPackages == PackagesOf(agScope, agRootSev, agWsSevs)
agRootSeverity == RootSeverityOf(agPackages)

-----------------------------------------------------------------------------
(* SpecMatch *)

InitMatch ==
    /\ fmId \in FindingIds
    /\ fmRules \in SeqsUpTo(PolicyRules, MaxRules)
    /\ fmResult = NoResult
    /\ ExitIdle
    /\ AggIdle
    /\ PolIdle
    /\ FpIdle
    /\ CmIdle
    /\ CliIdle
    /\ PkgIdle

FindMatchingRule ==
    /\ fmResult = NoResult
    /\ fmResult' = Returned(findMatchingRule(fmId, fmRules))
    /\ UNCHANGED <<fmId, fmRules, exitVars, aggVars, polVars, fpVars, cmVars, cliVars, pkgVars>>

NextMatch == FindMatchingRule

SpecMatch == InitMatch /\ [][NextMatch]_vars

-----------------------------------------------------------------------------
(* SpecPolicy *)

InitPolicy ==
    /\ poFindings \in SeqsUpTo(Findings, MaxFindings)
    /\ poRules \in SeqsUpTo(PolicyRules, MaxRules)
    /\ poResult = NoResult
    /\ ExitIdle
    /\ AggIdle
    /\ FmIdle
    /\ FpIdle
    /\ CmIdle
    /\ CliIdle
    /\ PkgIdle

ApplyPolicy ==
    /\ poResult = NoResult
    /\ poResult' = Returned(applyPolicy(poFindings, poRules))
    /\ UNCHANGED <<poFindings, poRules, exitVars, aggVars, fmVars, fpVars, cmVars, cliVars, pkgVars>>

NextPolicy == ApplyPolicy

SpecPolicy == InitPolicy /\ [][NextPolicy]_vars
-----------------------------------------------------------------------------
(* SpecFingerprint: one finding, reported with its details in any order and *)
(* letter case, fingerprinted any number of times                           *)

InitFingerprint ==
    /\ \E id \in FindingIds, sev \in Severities, details \in SeqsUpTo(Strings, MaxDetails) :
          fpFinding = FindingWith(id, sev, details)
    /\ fpPackageName \in {Undefined, "", "pkg1"}
    /\ fpResult = NoResult
    /\ fpFirst = NoResult
    /\ fpPhase = "fresh"
    /\ ExitIdle /\ AggIdle /\ FmIdle /\ PolIdle /\ CmIdle /\ CliIdle /\ PkgIdle

CreateFindingFingerprint ==
    LET fp == createFindingFingerprint(fpFinding, fpPackageName)
    IN /\ fpResult' = Returned(fp)
       /\ fpFirst' = IF fpFirst = NoResult THEN Returned(fp) ELSE fpFirst
       /\ fpPhase' = CASE fpPhase = "fresh" -> "first"
                       [] fpPhase = "varied" -> "second"
                       [] OTHER -> fpPhase
       /\ UNCHANGED <<fpFinding, fpPackageName, exitVars, aggVars, fmVars, polVars, cmVars, cliVars, pkgVars>>

VariedPhase == IF fpPhase \in {"first", "second"} THEN "varied" ELSE fpPhase

\* the same finding reported with two neighbouring detail lines exchanged
ReorderDetails ==
    \E i \in 1..(Len(fpFinding.details) - 1) :
        /\ fpFinding.details[i] # fpFinding.details[i + 1]
        /\ fpPhase' = VariedPhase
        /\ fpFinding' = [fpFinding EXCEPT
                            !.details = [@ EXCEPT ![i] = fpFinding.details[i + 1],
                                                  ![i + 1] = fpFinding.details[i]]]
        /\ UNCHANGED <<fpPackageName, fpResult, fpFirst,
                       exitVars, aggVars, fmVars, polVars, cmVars, cliVars, pkgVars>>

SwapCase(c) == IF c >= 65 /\ c <= 90 THEN c + 32
               ELSE IF c >= 97 /\ c <= 122 THEN c - 32
               ELSE c

\* the same finding reported with one letter of one detail line in the other case
ChangeCase ==
    \E i \in 1..Len(fpFinding.details) :
        \E k \in 1..Len(fpFinding.details[i]) :
            /\ SwapCase(fpFinding.details[i][k]) \in Chars \ {fpFinding.details[i][k]}
            /\ fpPhase' = VariedPhase
            /\ fpFinding' = [fpFinding EXCEPT
                                !.details[i][k] = SwapCase(fpFinding.details[i][k])]
            /\ UNCHANGED <<fpPackageName, fpResult, fpFirst,
                           exitVars, aggVars, fmVars, polVars, cmVars, cliVars, pkgVars>>

NextFingerprint == CreateFindingFingerprint \/ ReorderDetails \/ ChangeCase

SpecFingerprint == InitFingerprint /\ [][NextFingerprint]_vars

-----------------------------------------------------------------------------
(* SpecCompare *)

PackageNames == {"pkg1", "pkg2"}
Hash1 == md5(<<Cha>>)
Hash2 == md5(<<Chb>>)

Fingerprint(id, packageName, severity, detailsHash) ==
    [id |-> id, packageName |-> packageName, severity |-> severity,
     detailsHash |-> detailsHash]

\* One key at every severity, and three more keys that differ from it in the
\* id, in the package name and in the details hash.
Fingerprints ==
    {Fingerprint("deps.native_addons", "pkg1", sev, Hash1) : sev \in Severities}
    \cup {Fingerprint("scripts.lifecycle", "pkg1", sev, Hash1) : sev \in {"yellow", "red"}}
    \cup {Fingerprint("deps.native_addons", "pkg2", sev, Hash1) : sev \in {"yellow", "red"}}
    \cup {Fingerprint("deps.native_addons", "pkg1", sev, Hash2) : sev \in {"yellow", "red"}}

InitCompare ==
    /\ cmBaseline \in SeqsUpTo(Fingerprints, MaxFingerprints)
    /\ cmCurrent \in SeqsUpTo(Fingerprints, MaxFingerprints)
    /\ cmResult = NoResult
    /\ ExitIdle /\ AggIdle /\ FmIdle /\ PolIdle /\ FpIdle /\ CliIdle /\ PkgIdle

CompareFindings ==
    /\ cmResult = NoResult
    /\ cmResult' = Returned(compareFindings(cmBaseline, cmCurrent))
    /\ UNCHANGED <<cmBaseline, cmCurrent, exitVars, aggVars, fmVars, polVars, fpVars, cliVars, pkgVars>>

NextCompare == CompareFindings

SpecCompare == InitCompare /\ [][NextCompare]_vars

-----------------------------------------------------------------------------
(* SpecCli: one run of the command line, main() in cli.ts, split where it     *)
(* awaits the scan, the baseline file and the report file                     *)

RuleArgs ==
    {<<"deps.native_addons", "=", "fail">>,
     <<"deps.native_addons", "=", "off">>,
     <<"scripts.lifecycle", ":", "downgrade">>,
     <<"*", "=", "warn">>,
     <<"*", ":", "upgrade">>,
     <<"deps.native_addons", "=", "fail", ":", "downgrade">>}

BaselineFlags ==
    {<<>>, <<"--baseline">>, <<"--baseline", "--update-baseline">>,
     <<"--update-baseline", "--baseline">>, <<"--update-baseline">>}

Argvs ==
    [cmd : {"scan"}, failOn : FailOnValues, ruleArgs : SeqsUpTo(RuleArgs, MaxCliRules),
     maxWarnings : {Null, Some(0)}, baselineFlags : BaselineFlags]
    \cup [cmd : {"", "check"}, failOn : {Undefined}, ruleArgs : {<<>>},
          maxWarnings : {Null}, baselineFlags : {<<>>}]

\* what the heuristics can report for a package of the scanned repository
CliFindings == {Finding("deps.native_addons", "yellow"), Finding("scripts.lifecycle", "red")}

\* what an earlier run can have saved
SavedFingerprints ==
    {createFindingFingerprint(f, Undefined) :
        f \in CliFindings \cup {Finding("deps.native_addons", "red")}}

BaselineFiles ==
    {AbsentFile, NotJsonFile}
    \cup {BaselineJson([version |-> "1.0", timestamp |-> "t0", findings |-> findings]) :
            findings \in SeqsUpTo(SavedFingerprints, MaxCliFindings)}

Now == "t1"

InitCli ==
    /\ pc = "start"
    /\ argv \in Argvs
    /\ configFile \in {Undefined, "green"}
    /\ baselineFile \in BaselineFiles
    /\ fileOps = <<>>
    /\ scan = Null
    /\ baselineData = Null
    /\ finalResult = Null
    /\ exitCode = NoCode
    /\ ExitIdle /\ AggIdle /\ FmIdle /\ PolIdle /\ FpIdle /\ CmIdle /\ PkgIdle

\* cli.ts 263-266
InvalidCommand ==
    /\ pc = "start"
    /\ argv.cmd # "scan"
    /\ pc' = "exited"
    /\ exitCode' = 1
    /\ UNCHANGED <<argv, configFile, baselineFile, fileOps, scan, baselineData, finalResult>>
    /\ UNCHANGED <<exitVars, aggVars, fmVars, polVars, fpVars, cmVars, pkgVars>>

\* cli.ts 261-304: the options, the config, the merged policy and the scan of
\* a repository. installOk is "null" when the install step is not run, else
\* "true" or "false" as runBunInstallDryRun reports.
Scan ==
    /\ pc = "start"
    /\ argv.cmd = "scan"
    /\ \E hasPkg \in BOOLEAN,
          rootFindings \in SeqsUpTo(CliFindings, MaxCliFindings),
          wsFindings \in SeqsUpTo(SeqsUpTo(CliFindings, MaxCliFindings), 1),
          installOk \in {"null", "true", "false"} :
          LET opts == parseArgs(argv)
              config == mergeConfigWithOpts(Null, opts.failOn)
              res == IF hasPkg
                     THEN OverallResult(rootFindings, wsFindings, installOk)
                     ELSE NoPackageJsonResult
          IN /\ ~hasPkg => (rootFindings = <<>> /\ wsFindings = <<>> /\ installOk = "null")
             /\ scan' = Some([opts |-> opts, config |-> config,
                              mergedPolicy |-> mergePolicyConfigs(opts.policy),
                              res |-> [res EXCEPT !.config = configFile],
                              installOk |-> installOk])
    /\ pc' = "scanned"
    /\ UNCHANGED <<argv, configFile, baselineFile, fileOps, baselineData, finalResult, exitCode>>
    /\ UNCHANGED <<exitVars, aggVars, fmVars, polVars, fpVars, cmVars, pkgVars>>

\* cli.ts 325-335: the baseline is loaded when a file is named; main() exits
\* with 1 when loadBaseline throws
LoadBaseline ==
    /\ pc = "scanned"
    /\ LET baseline == scan[1].opts.baseline
           loaded == loadBaseline(baselineFile)
       IN IF baseline # Null /\ baseline[1].file # ""
          THEN /\ fileOps' = Append(fileOps, [op |-> "read", path |-> baseline[1].file])
               /\ IF loaded.threw
                  THEN /\ pc' = "exited"
                       /\ exitCode' = 1
                       /\ UNCHANGED baselineData
                  ELSE /\ pc' = "loaded"
                       /\ baselineData' = loaded.data
                       /\ UNCHANGED exitCode
          ELSE /\ pc' = "loaded"
               /\ UNCHANGED <<fileOps, baselineData, exitCode>>
    /\ UNCHANGED <<argv, configFile, baselineFile, scan, finalResult>>
    /\ UNCHANGED <<exitVars, aggVars, fmVars, polVars, fpVars, cmVars, pkgVars>>

PolicyResult_thresholdVerdict(res, mergedPolicy) ==
    IF mergedPolicy = Null
    THEN [severity |-> res.severity, findings |-> res.findings, packages |-> res.packages,
          policyApplied |-> Null, baselineComparison |-> Null]
    ELSE LET rules == IF mergedPolicy[1].rules = Null THEN <<>> ELSE mergedPolicy[1].rules[1]
             policyResult == applyPolicy(res.findings, rules)
             yellowCount == Cardinality({i \in 1..Len(policyResult.modifiedFindings) :
                                policyResult.modifiedFindings[i].severity = "yellow"})
             breached == /\ mergedPolicy[1].thresholds # Null
                         /\ yellowCount > mergedPolicy[1].thresholds[1].maxWarnings
         IN [severity |-> IF breached THEN "red" ELSE res.severity,
             findings |-> policyResult.modifiedFindings,
             packages |-> res.packages, policyApplied |-> Some(policyResult.summary),
             baselineComparison |-> Null]

\* cli.ts 337-346
PolicyResult(res, mergedPolicy) ==
    IF mergedPolicy = Null
    THEN [severity |-> res.severity, findings |-> res.findings, packages |-> res.packages,
          policyApplied |-> Null, baselineComparison |-> Null]
    ELSE LET rules == IF mergedPolicy[1].rules = Null THEN <<>> ELSE mergedPolicy[1].rules[1]
             policyResult == applyPolicy(res.findings, rules)
         IN [severity |-> res.severity, findings |-> policyResult.modifiedFindings,
             packages |-> res.packages, policyApplied |-> Some(policyResult.summary),
             baselineComparison |-> Null]

\* cli.ts 261-452: the exit code main() calculates for a command line over
\* the result of the scan
MainExitCode(args, res) ==
    LET opts == parseArgs(args)
        config == mergeConfigWithOpts(Null, opts.failOn)
        result == PolicyResult(res, mergePolicyConfigs(opts.policy))
    IN calculateExitCode(result.severity, EffectiveFailOn(config, opts))

\* cli.ts 337-376: the policy, the fingerprints, the comparison and the save
ApplyPolicyAndCompare ==
    /\ pc = "loaded"
    /\ LET opts == scan[1].opts
           result == PolicyResult(scan[1].res, scan[1].mergedPolicy)
           currentFingerprints == CurrentFingerprints(result)
       IN IF baselineData # Null
          THEN /\ finalResult' =
                     Some([result EXCEPT !.baselineComparison =
                              Some(compareFindings(baselineData[1].findings,
                                                   currentFingerprints))])
               /\ IF opts.baseline[1].update
                  THEN /\ baselineFile' = BaselineJson([version |-> baselineData[1].version,
                                                        timestamp |-> Now,
                                                        findings |-> currentFingerprints])
                       /\ fileOps' = Append(fileOps, [op |-> "write",
                                                      path |-> opts.baseline[1].file])
                  ELSE UNCHANGED <<baselineFile, fileOps>>
          ELSE /\ finalResult' = Some(result)
               /\ UNCHANGED <<baselineFile, fileOps>>
    /\ pc' = "compared"
    /\ UNCHANGED <<argv, configFile, scan, baselineData, exitCode>>
    /\ UNCHANGED <<exitVars, aggVars, fmVars, polVars, fpVars, cmVars, pkgVars>>

\* cli.ts 404-453: the report is written and the exit code calculated
ReportAndExit ==
    /\ pc = "compared"
    /\ exitCode' = calculateExitCode(finalResult[1].severity,
                                     EffectiveFailOn(scan[1].config, scan[1].opts))
    /\ pc' = "exited"
    /\ UNCHANGED <<argv, configFile, baselineFile, fileOps, scan, baselineData, finalResult>>
    /\ UNCHANGED <<exitVars, aggVars, fmVars, polVars, fpVars, cmVars, pkgVars>>

\* cli.ts 427, 456-460: writing the report file fails and main() rejects
ReportWriteFails ==
    /\ pc = "compared"
    /\ exitCode' = 3
    /\ pc' = "failed"
    /\ UNCHANGED <<argv, configFile, baselineFile, fileOps, scan, baselineData, finalResult>>
    /\ UNCHANGED <<exitVars, aggVars, fmVars, polVars, fpVars, cmVars, pkgVars>>

NextCli ==
    \/ InvalidCommand
    \/ Scan
    \/ LoadBaseline
    \/ ApplyPolicyAndCompare
    \/ ReportAndExit
    \/ ReportWriteFails

SpecCli == InitCli /\ [][NextCli]_vars

-----------------------------------------------------------------------------
(* SpecLoad: one call of loadBaseline on a file of any content *)

JsonValues ==
    {FileContent("json", FALSE, JsonUndefined, JsonUndefined, JsonNoList)}
    \cup {FileContent("json", TRUE, version, timestamp, findings) :
            version \in {JsonUndefined, JsonNumber, JsonString("1.0")},
            timestamp \in {JsonUndefined, JsonNumber, JsonString("t0")},
            findings \in {JsonNoList, JsonObjectNoList}
                         \cup {JsonArray(list) :
                                 list \in SeqsUpTo(SavedFingerprints, MaxCliFindings)}}

FileContents == {AbsentFile, NotJsonFile} \cup JsonValues

InitLoad ==
    /\ pc = "start"
    /\ baselineFile \in FileContents
    /\ baselineData = Null
    /\ fileOps = <<>>
    /\ argv = [cmd |-> "", failOn |-> Undefined, ruleArgs |-> <<>>,
               maxWarnings |-> Null, baselineFlags |-> <<>>]
    /\ configFile = Undefined
    /\ scan = Null
    /\ finalResult = Null
    /\ exitCode = NoCode
    /\ ExitIdle /\ AggIdle /\ FmIdle /\ PolIdle /\ FpIdle /\ CmIdle /\ PkgIdle

\* the call returns, pc "returned", or throws, pc "threw"
LoadBaselineCall ==
    /\ pc = "start"
    /\ pc' = IF loadBaseline(baselineFile).threw THEN "threw" ELSE "returned"
    /\ baselineData' = loadBaseline(baselineFile).data
    /\ fileOps' = Append(fileOps, [op |-> "read", path |-> BaselinePath])
    /\ UNCHANGED <<argv, configFile, baselineFile, scan, finalResult, exitCode>>
    /\ UNCHANGED <<exitVars, aggVars, fmVars, polVars, fpVars, cmVars, pkgVars>>

NextLoad == LoadBaselineCall

SpecLoad == InitLoad /\ [][NextLoad]_vars

-----------------------------------------------------------------------------
(* SpecSummarize: one call of summarizeSeverity *)

OkValues == {"true", "false", "null"}

InitSummarize ==
    /\ pkFindings \in SeqsUpTo(Findings, MaxFindings)
    /\ pkInstallOk \in OkValues
    /\ pkTestOk \in OkValues
    /\ pkSeverity = None
    /\ pkEnv = IdleEnv
    /\ pkResult = NoResult
    /\ ExitIdle /\ AggIdle /\ FmIdle /\ PolIdle /\ FpIdle /\ CmIdle /\ CliIdle

SummarizeSeverity ==
    /\ pkSeverity = None
    /\ pkSeverity' = summarizeSeverity(pkFindings, pkInstallOk, pkTestOk)
    /\ UNCHANGED <<pkFindings, pkInstallOk, pkTestOk, pkEnv, pkResult>>
    /\ UNCHANGED <<exitVars, aggVars, fmVars, polVars, fpVars, cmVars, cliVars>>

NextSummarize == SummarizeSeverity

SpecSummarize == InitSummarize /\ [][NextSummarize]_vars

-----------------------------------------------------------------------------
(* SpecPackage: one call of analyzeSinglePackage *)

InitPackage ==
    /\ pkFindings \in SeqsUpTo(Findings, MaxFindings)
    /\ pkEnv \in Envs
    /\ pkInstallOk = "null"
    /\ pkTestOk = "null"
    /\ pkSeverity = None
    /\ pkResult = NoResult
    /\ ExitIdle /\ AggIdle /\ FmIdle /\ PolIdle /\ FpIdle /\ CmIdle /\ CliIdle

AnalyzeSinglePackage ==
    /\ pkResult = NoResult
    /\ pkResult' = Returned(analyzeSinglePackage(pkFindings, pkEnv))
    /\ UNCHANGED <<pkFindings, pkInstallOk, pkTestOk, pkSeverity, pkEnv>>
    /\ UNCHANGED <<exitVars, aggVars, fmVars, polVars, fpVars, cmVars, cliVars>>

NextPackage == AnalyzeSinglePackage

SpecPackage == InitPackage /\ [][NextPackage]_vars

-----------------------------------------------------------------------------
(* Claims about SpecSeverity *)

C16_FailOnIsMinimumFailingSeverity ==
    (exCode # NoCode /\ exFailOn # Undefined) =>
        /\ severityOrder(exSeverity) >= severityOrder(exFailOn) => exCode # 0
        /\ severityOrder(exSeverity) < severityOrder(exFailOn) => exCode = 0
        /\ (exFailOn = "yellow" /\ exSeverity = "yellow") => exCode = 3

\* C2: if the root severity is red or any package has severity red, the
\* aggregated overall severity is red.
C2_RedDominates ==
    agResult # None =>
        ((agRootSeverity = "red" \/ \E i \in 1..Len(agPackages) : agPackages[i].severity = "red")
            => agResult = "red")

\* C3: the aggregated severity is the maximum, under green < yellow < red, of
\* the root severity and all package severities.
C3_AggregateIsMax ==
    agResult # None =>
        LET all == {agRootSeverity} \cup {agPackages[i].severity : i \in 1..Len(agPackages)}
        IN /\ agResult \in all
           /\ \A s \in all : severityOrder(s) <= severityOrder(agResult)

-----------------------------------------------------------------------------
(* Claims about SpecMatch and SpecPolicy *)

MinOf(S) == CHOOSE x \in S : \A y \in S : x <= y

\* The rule the specification's precedence selects for a finding id: the first
\* rule with that id, else the first wildcard rule, else none (0).
SelectedRule(id, rules) ==
    LET exact == {i \in 1..Len(rules) : rules[i].id = id}
        wild == {i \in 1..Len(rules) : rules[i].id = "*"}
    IN IF exact # {} THEN MinOf(exact) ELSE IF wild # {} THEN MinOf(wild) ELSE 0

poOut == poResult[1]
poRuleOf(i) == SelectedRule(poFindings[i].id, poRules)
poMatched(i) == poRuleOf(i) # 0
poSuppressed(i) == poMatched(i) /\ poRules[poRuleOf(i)].action \in {"off", "ignore"}
poIndices == 1..Len(poFindings)
\* where finding i lands in modifiedFindings, and its rule in summary.rules
poKeptPos(i) == Cardinality({j \in 1..i : ~poSuppressed(j)})
poRulePos(i) == Cardinality({j \in 1..i : poMatched(j)})

\* C5: a finding whose matching rule has action off or ignore never appears in
\* modifiedFindings, whatever its severity and the rule's severityChange; it
\* increments findingsDisabled and still has its AppliedPolicyRule entry.
C5_SuppressionTotal ==
    poResult # NoResult =>
        /\ Len(poOut.modifiedFindings) = Cardinality({j \in poIndices : ~poSuppressed(j)})
        /\ poOut.summary.findingsDisabled = Cardinality({j \in poIndices : poSuppressed(j)})
        /\ \A i \in poIndices : poSuppressed(i) =>
              /\ \A k \in 1..Len(poOut.modifiedFindings) :
                    poOut.modifiedFindings[k].id # poFindings[i].id
              /\ poRulePos(i) <= Len(poOut.summary.rules)
              /\ LET e == poOut.summary.rules[poRulePos(i)]
                 IN /\ e.findingId = poFindings[i].id
                    /\ e.action = poRules[poRuleOf(i)].action
                    /\ e.originalSeverity = poFindings[i].severity

C5_Witness ==
    /\ poResult # NoResult
    /\ Len(poFindings) = 2
    /\ poFindings[1].severity = "red"
    /\ poSuppressed(1) /\ ~poSuppressed(2)
    /\ poRules[poRuleOf(1)].action = "ignore"
    /\ poRules[poRuleOf(1)].severityChange = "upgrade"
    /\ Len(poOut.modifiedFindings) = 1
    /\ poOut.summary.findingsDisabled = 1

\* C6: the action forces the severity first (fail -> red, warn -> yellow, no
\* action -> the finding's own severity) and the severityChange then moves
\* that result one step, saturating at red and green.
C6_TwoStageSeverity ==
    poResult # NoResult =>
        \A i \in poIndices : (poMatched(i) /\ ~poSuppressed(i)) =>
            LET rule == poRules[poRuleOf(i)]
                forced == CASE rule.action = "fail" -> "red"
                            [] rule.action = "warn" -> "yellow"
                            [] rule.action = Undefined -> poFindings[i].severity
                final == CASE rule.severityChange = "upgrade" ->
                                [green |-> "yellow", yellow |-> "red", red |-> "red"][forced]
                           [] rule.severityChange = "downgrade" ->
                                [green |-> "green", yellow |-> "green", red |-> "yellow"][forced]
                           [] OTHER -> forced
            IN /\ poKeptPos(i) <= Len(poOut.modifiedFindings)
               /\ poOut.modifiedFindings[poKeptPos(i)].severity = final
               /\ poRulePos(i) <= Len(poOut.summary.rules)
               /\ poOut.summary.rules[poRulePos(i)].newSeverity = final

C6_Witness ==
    /\ poResult # NoResult
    /\ Len(poFindings) = 1
    /\ poFindings[1].severity = "green"
    /\ poMatched(1)
    /\ poRules[poRuleOf(1)].action = "fail"
    /\ poRules[poRuleOf(1)].severityChange = "downgrade"
    /\ poOut.modifiedFindings[1].severity = "yellow"

\* C7: the applied rule is the first rule whose id equals the finding id; only
\* if there is none, the first rule with id "*"; otherwise none.
C7_SingleMatchPrecedence ==
    fmResult # NoResult =>
        LET r == fmResult[1]
            exact == {i \in 1..Len(fmRules) : fmRules[i].id = fmId}
            wild == {i \in 1..Len(fmRules) : fmRules[i].id = "*"}
        IN /\ exact # {} => (r \in exact /\ \A j \in exact : r <= j)
           /\ (exact = {} /\ wild # {}) => (r \in wild /\ \A j \in wild : r <= j)
           /\ (exact = {} /\ wild = {}) => r = 0

C7_Witness ==
    /\ fmResult = <<2>>
    /\ fmRules[1].id = "*"
    /\ fmRules[2].id = fmId

\* C8: severityUpgraded counts the findings matched by a non-suppressing rule
\* whose final severity is strictly higher than the original, and
\* severityDowngraded those whose final severity is strictly lower.
C8_CountersCompareFinalToOriginal ==
    poResult # NoResult =>
        LET moved == {i \in poIndices : poMatched(i) /\ ~poSuppressed(i)}
            final(i) == poOut.modifiedFindings[poKeptPos(i)].severity
            rank(s) == CASE s = "green" -> 0 [] s = "yellow" -> 1 [] s = "red" -> 2
        IN /\ poOut.summary.severityUpgraded =
                Cardinality({i \in moved : rank(final(i)) > rank(poFindings[i].severity)})
           /\ poOut.summary.severityDowngraded =
                Cardinality({i \in moved : rank(final(i)) < rank(poFindings[i].severity)})

\* the findings no rule suppresses, in input order
poKept == {i \in poIndices : ~poSuppressed(i)}
poMatchedSet == {i \in poIndices : poMatched(i)}

\* C22: modifiedFindings is the input sequence with the suppressed findings
\* removed and the others in their original relative order, and summary.rules
\* holds one entry per rule-matched finding in the order of the input
\* findings, not of the rules.
C22_OrderPreserving ==
    poResult # NoResult =>
        /\ Len(poOut.modifiedFindings) = Cardinality(poKept)
        /\ \A i \in poKept : poOut.modifiedFindings[poKeptPos(i)].id = poFindings[i].id
        /\ Len(poOut.summary.rules) = Cardinality(poMatchedSet)
        /\ \A i \in poMatchedSet :
              /\ poOut.summary.rules[poRulePos(i)].findingId = poFindings[i].id
              /\ poOut.summary.rules[poRulePos(i)].originalSeverity = poFindings[i].severity

\* two findings matched by the rules in the opposite order
C22_Witness ==
    /\ poResult # NoResult
    /\ Len(poFindings) = 2 /\ Len(poRules) = 2
    /\ poFindings[1].id # poFindings[2].id
    /\ poRuleOf(1) = 2 /\ poRuleOf(2) = 1
    /\ ~poSuppressed(1) /\ ~poSuppressed(2)
    /\ Len(poOut.summary.rules) = 2
    /\ poOut.summary.rules[1].findingId = poFindings[1].id

\* what applyPolicy emits for the findings it keeps
poEmittedAsGiven ==
    poResult # NoResult =>
        \A i \in poKept :
            LET out == poOut.modifiedFindings[poKeptPos(i)]
            IN /\ ~poMatched(i) => out = poFindings[i]
               /\ out.id = poFindings[i].id
               /\ out.title = poFindings[i].title
               /\ out.details = poFindings[i].details
               /\ out.hints = poFindings[i].hints

\* C23: applyPolicy leaves its input findings as they are, passes a finding
\* with no matching rule through as it is, and emits for a matched finding a
\* finding with the same id, title, details and hints.
C23_OnlySeverityChanges ==
    /\ []poEmittedAsGiven
    /\ [][poFindings' = poFindings]_vars

\* one finding passed through and one emitted with a new severity
C23_Witness ==
    /\ poResult # NoResult
    /\ Len(poFindings) = 2
    /\ ~poMatched(1)
    /\ poMatched(2) /\ ~poSuppressed(2)
    /\ poOut.modifiedFindings[1] = poFindings[1]
    /\ poOut.modifiedFindings[2].severity # poFindings[2].severity
    /\ poOut.modifiedFindings[2].details = poFindings[2].details

\* the rule ids are pairwise distinct and none is the wildcard
UnrelatedRules(rules) ==
    /\ \A i \in 1..Len(rules) : rules[i].id # Wildcard
    /\ \A i, j \in 1..Len(rules) : i # j => rules[i].id # rules[j].id

Permuted(rules, f) == [i \in 1..Len(rules) |-> rules[f[i]]]

\* C24: for rules whose ids are pairwise distinct and hold no wildcard,
\* applyPolicy returns the same modifiedFindings and the same summary for
\* every permutation of the rule list.
C24_RuleOrderIndependent ==
    (poResult # NoResult /\ poRules # <<>> /\ UnrelatedRules(poRules)) =>
        \A f \in Permutations(1..Len(poRules)) :
            applyPolicy(poFindings, Permuted(poRules, f)) = poOut

\* two rules of different effect, each matching one of two findings
C24_Witness ==
    /\ poResult # NoResult
    /\ Len(poRules) = 2 /\ UnrelatedRules(poRules)
    /\ poRules[1].action = "fail" /\ poRules[2].action = "off"
    /\ Len(poFindings) = 2
    /\ poRuleOf(1) = 2 /\ poRuleOf(2) = 1
    /\ Len(poOut.modifiedFindings) = 1

poDisablingLabel(entry) == entry.action \in {"off", "ignore"}

\* C30: summary.rules has exactly one entry per rule-matched finding, an entry
\* is labelled off or ignore exactly when its finding was dropped from
\* modifiedFindings, findingsDisabled is the number of such entries, and
\* modifiedFindings is as long as findings minus findingsDisabled.
C30_AuditTrailConsistent ==
    poResult # NoResult =>
        /\ Len(poOut.summary.rules) = Cardinality(poMatchedSet)
        /\ \A i \in poMatchedSet :
              poDisablingLabel(poOut.summary.rules[poRulePos(i)]) = poSuppressed(i)
        /\ poOut.summary.findingsDisabled =
              Cardinality({k \in 1..Len(poOut.summary.rules) :
                              poDisablingLabel(poOut.summary.rules[k])})
        /\ Len(poOut.modifiedFindings) = Len(poFindings) - poOut.summary.findingsDisabled

\* C29: for every severity and every failOn, PolicyManager.getExitCode
\* returns the code calculateExitCode returns.
C29_ExitCodeMappersAgree ==
    (exCode # NoCode /\ exPolicyCode # NoCode) => exPolicyCode = exCode

-----------------------------------------------------------------------------
(* Claims about SpecFingerprint and SpecCompare *)

\* C9: findings whose details are equal as multisets after lower-casing (any
\* permutation, any letter case) get the same detailsHash, as does the same
\* finding fingerprinted twice; id and severity are copied and packageName is
\* "root" when no package name is passed.
C9_FingerprintNormalised ==
    fpResult # NoResult =>
        /\ fpResult[1].detailsHash = fpFirst[1].detailsHash
        /\ fpResult[1].id = fpFinding.id
        /\ fpResult[1].severity = fpFinding.severity
        /\ fpPackageName = Undefined => fpResult[1].packageName = "root"
        /\ fpPackageName = "pkg1" => fpResult[1].packageName = "pkg1"

C9_Witness ==
    /\ fpPhase = "second"
    /\ fpFinding.details = <<<<Chb>>, <<Cha>>>>
    /\ fpPackageName = Undefined
    /\ fpResult[1].packageName = "root"
    /\ fpResult[1].detailsHash = fpFirst[1].detailsHash

cmOut == cmResult[1]
KeyTriple(fp) == <<fp.id, fp.packageName, fp.detailsHash>>
KeysOf(list) == {KeyTriple(list[i]) : i \in 1..Len(list)}
LastWithKey(list, k) ==
    list[CHOOSE i \in 1..Len(list) :
            /\ KeyTriple(list[i]) = k
            /\ \A j \in (i + 1)..Len(list) : KeyTriple(list[j]) # k]
\* out holds one entry for every key of `from` that `other` lacks, the last
\* entry of `from` with that key, and nothing else
OnePerAbsentKey(out, from, other) ==
    /\ \A j \in 1..Len(out) : KeyTriple(out[j]) \in KeysOf(from) \ KeysOf(other)
    /\ \A k \in KeysOf(from) \ KeysOf(other) :
          /\ Cardinality({j \in 1..Len(out) : KeyTriple(out[j]) = k}) = 1
          /\ \E j \in 1..Len(out) : out[j] = LastWithKey(from, k)

\* C10 (as amended): compareFindings diffs by the key (id, packageName,
\* detailsHash) with severity excluded: newFindings holds exactly one entry
\* for each key of current that the baseline lacks, the last current entry
\* with that key, and resolvedFindings one for each key of the baseline that
\* current lacks, the last baseline entry with that key.
C10_DiffByKey ==
    cmResult # NoResult =>
        /\ OnePerAbsentKey(cmOut.newFindings, cmCurrent, cmBaseline)
        /\ OnePerAbsentKey(cmOut.resolvedFindings, cmBaseline, cmCurrent)

C10_Witness ==
    /\ cmResult # NoResult
    /\ cmBaseline = <<Fingerprint("deps.native_addons", "pkg1", "yellow", Hash1)>>
    /\ cmCurrent = <<Fingerprint("deps.native_addons", "pkg2", "yellow", Hash1)>>
    /\ cmOut.newFindings = cmCurrent
    /\ cmOut.resolvedFindings = cmBaseline

\* C10 (as claimed): newFindings is exactly the current entries whose key is
\* absent from the baseline, resolvedFindings exactly the baseline entries
\* whose key is absent from current.
C10_Original ==
    cmResult # NoResult =>
        /\ {cmOut.newFindings[j] : j \in 1..Len(cmOut.newFindings)} =
              {cmCurrent[i] : i \in {i \in 1..Len(cmCurrent) :
                                        KeyTriple(cmCurrent[i]) \notin KeysOf(cmBaseline)}}
        /\ {cmOut.resolvedFindings[j] : j \in 1..Len(cmOut.resolvedFindings)} =
              {cmBaseline[i] : i \in {i \in 1..Len(cmBaseline) :
                                         KeyTriple(cmBaseline[i]) \notin KeysOf(cmCurrent)}}

\* the keys both lists hold
SharedKeys == KeysOf(cmBaseline) \cap KeysOf(cmCurrent)
ChangeKey(c) == KeyTriple(c.fingerprint)

\* C11 (as amended): severityChanges holds exactly one entry for every key
\* present in both lists whose last baseline entry and last current entry
\* differ in severity, and nothing else; the entry records the last current
\* entry with that key, oldSeverity from the last baseline entry and
\* newSeverity from that current entry; no key of severityChanges is a key
\* of newFindings or of resolvedFindings.
C11_SeverityChangesByKey ==
    cmResult # NoResult =>
        LET changes == cmOut.severityChanges
            differ(k) == LastWithKey(cmCurrent, k).severity # LastWithKey(cmBaseline, k).severity
        IN /\ \A j \in 1..Len(changes) :
                 /\ ChangeKey(changes[j]) \in SharedKeys
                 /\ differ(ChangeKey(changes[j]))
                 /\ changes[j].fingerprint = LastWithKey(cmCurrent, ChangeKey(changes[j]))
                 /\ changes[j].oldSeverity =
                        LastWithKey(cmBaseline, ChangeKey(changes[j])).severity
                 /\ changes[j].newSeverity = changes[j].fingerprint.severity
           /\ \A k \in SharedKeys :
                 differ(k) => Cardinality({j \in 1..Len(changes) : ChangeKey(changes[j]) = k}) = 1
           /\ \A j \in 1..Len(changes) :
                 /\ ChangeKey(changes[j]) \notin KeysOf(cmOut.newFindings)
                 /\ ChangeKey(changes[j]) \notin KeysOf(cmOut.resolvedFindings)

\* a key held twice by current, the severity change taken from the last entry
C11_Witness ==
    /\ cmResult # NoResult
    /\ cmBaseline = <<Fingerprint("deps.native_addons", "pkg1", "yellow", Hash1)>>
    /\ cmCurrent = <<Fingerprint("deps.native_addons", "pkg1", "red", Hash1),
                     Fingerprint("deps.native_addons", "pkg1", "green", Hash1)>>
    /\ cmOut.severityChanges =
          <<[fingerprint |-> Fingerprint("deps.native_addons", "pkg1", "green", Hash1),
             oldSeverity |-> "yellow", newSeverity |-> "green"]>>

\* C11 (as claimed): the keys of severityChanges are exactly the keys present
\* in both lists that a baseline entry and a current entry hold at different
\* severities.
C11_Original ==
    cmResult # NoResult =>
        {ChangeKey(cmOut.severityChanges[j]) : j \in 1..Len(cmOut.severityChanges)} =
            {k \in SharedKeys :
                \E i \in 1..Len(cmBaseline), j \in 1..Len(cmCurrent) :
                    /\ KeyTriple(cmBaseline[i]) = k
                    /\ KeyTriple(cmCurrent[j]) = k
                    /\ cmBaseline[i].severity # cmCurrent[j].severity}

cmNewRed == \E j \in 1..Len(cmOut.newFindings) : cmOut.newFindings[j].severity = "red"
cmChangedToRed ==
    \E j \in 1..Len(cmOut.severityChanges) : cmOut.severityChanges[j].newSeverity = "red"

\* C12: isRegression is true exactly when a newFindings entry is red or a
\* severityChanges entry has newSeverity red; regressionReasons holds one
\* reason for each of the two conditions that is met, so it is empty exactly
\* when isRegression is false; new or changed yellow and green findings alone
\* make no regression.
C12_RegressionVerdict ==
    cmResult # NoResult =>
        /\ cmOut.isRegression = (cmNewRed \/ cmChangedToRed)
        /\ Len(cmOut.regressionReasons) =
              (IF cmNewRed THEN 1 ELSE 0) + (IF cmChangedToRed THEN 1 ELSE 0)
        /\ cmNewRed = (\E j \in 1..Len(cmOut.regressionReasons) :
                          cmOut.regressionReasons[j].text = "New RED findings detected")
        /\ cmChangedToRed = (\E j \in 1..Len(cmOut.regressionReasons) :
                                cmOut.regressionReasons[j].text = "Severity upgraded to RED")
        /\ (cmOut.regressionReasons = <<>>) = ~cmOut.isRegression

\* a finding changed from yellow to red and a new yellow one: one reason
C12_Witness ==
    /\ cmResult # NoResult
    /\ cmBaseline = <<Fingerprint("deps.native_addons", "pkg1", "yellow", Hash1)>>
    /\ cmCurrent = <<Fingerprint("deps.native_addons", "pkg1", "red", Hash1),
                     Fingerprint("scripts.lifecycle", "pkg1", "yellow", Hash1)>>
    /\ cmOut.isRegression
    /\ Len(cmOut.regressionReasons) = 1
    /\ Len(cmOut.newFindings) = 1

\* C25: compareFindings(X, X), for any fingerprint list X, also one with
\* repeated keys, yields empty newFindings, resolvedFindings and
\* severityChanges, isRegression false and no regression reasons.
C25_SelfComparisonEmpty ==
    (cmResult # NoResult /\ cmBaseline = cmCurrent) =>
        /\ cmOut.newFindings = <<>>
        /\ cmOut.resolvedFindings = <<>>
        /\ cmOut.severityChanges = <<>>
        /\ cmOut.isRegression = FALSE
        /\ cmOut.regressionReasons = <<>>

\* a list that holds one key twice, at yellow and then at red
C25_Witness ==
    /\ cmResult # NoResult
    /\ cmBaseline = cmCurrent
    /\ cmCurrent = <<Fingerprint("deps.native_addons", "pkg1", "yellow", Hash1),
                     Fingerprint("deps.native_addons", "pkg1", "red", Hash1)>>
    /\ cmOut.severityChanges = <<>>
    /\ ~cmOut.isRegression

-----------------------------------------------------------------------------
(* Claims about SpecCli *)

\* a scan that ran to its exit with a policy on the command line
cliPolicyScanExited ==
    pc = "exited" /\ scan # Null /\ scan[1].mergedPolicy # Null

cliFailOn == EffectiveFailOn(scan[1].config, scan[1].opts)

\* C4: in a scan with a policy the exit code is the one of the severity
\* recomputed from the policy-modified findings: a modified finding at red
\* makes the scan exit as red, and in a repository of the root package alone
\* the scan exits as the severity summarised from the modified findings.
C4_ExitFollowsModifiedFindings ==
    cliPolicyScanExited =>
        LET modified == finalResult[1].findings
        IN /\ (\E i \in 1..Len(modified) : modified[i].severity = "red")
                => exitCode = calculateExitCode("red", cliFailOn)
           /\ Len(finalResult[1].packages) = 1
                => exitCode = calculateExitCode(
                                  summarizeSeverity(modified, scan[1].installOk, "null"),
                                  cliFailOn)

\* a scan that ran to its exit code
cliScanExited == pc = "exited" /\ scan # Null

\* C13: a scan with --baseline <file> --update-baseline whose file is absent
\* or unusable ends with the file written, holding the fingerprints of the scan.
C13_BootstrapWritesBaseline ==
    (/\ cliScanExited
     /\ argv.baselineFlags = <<"--baseline", "--update-baseline">>
     /\ baselineData = Null)
        => /\ baselineFile.kind = "json"
           /\ baselineFile.findings = JsonArray(CurrentFingerprints(finalResult[1]))

\* C14: a scan with --baseline <file> and no --update-baseline whose file is
\* absent exits with code 1.
C14_MissingBaselineExitsOne ==
    (/\ cliScanExited
     /\ argv.baselineFlags = <<"--baseline">>
     /\ baselineFile.kind = "absent")
        => exitCode = 1

\* C17: the exit code of a scan is computed with the --fail-on value when the
\* flag is given and else with the failOn of bun-ready.config.json.
C17_FailOnPrecedence ==
    cliScanExited =>
        exitCode = calculateExitCode(finalResult[1].severity,
                                     IF argv.failOn # Undefined THEN argv.failOn
                                     ELSE configFile)

\* C20: the combined argument --rule deps.native_addons=fail:downgrade is
\* parsed into one rule carrying that id, that action and that severityChange.
C20_CombinedRuleParsed ==
    (scan # Null
     /\ argv.ruleArgs = <<<<"deps.native_addons", "=", "fail", ":", "downgrade">>>>)
        => /\ scan[1].opts.policy # Null
           /\ scan[1].opts.policy[1].rules =
                 Some(<<[id |-> "deps.native_addons", action |-> "fail",
                         severityChange |-> "downgrade"]>>)

\* C21: two scans that differ only in their thresholds, over the same
\* findings, packages, rules and failOn, exit with the same code: the exit
\* code of a scan is the one main() calculates for the same command line
\* with --max-warnings absent and with --max-warnings 0.
C21_ThresholdsKeepExitCode ==
    cliScanExited =>
        \A maxWarnings \in {Null, Some(0)} :
            exitCode = MainExitCode([argv EXCEPT !.maxWarnings = maxWarnings], scan[1].res)

\* --max-warnings 0 breached by a yellow finding, the exit code that of yellow
C21_Witness ==
    /\ cliScanExited
    /\ argv.maxWarnings = Some(0)
    /\ argv.failOn = Undefined
    /\ \E i \in 1..Len(finalResult[1].findings) : finalResult[1].findings[i].severity = "yellow"
    /\ finalResult[1].policyApplied # Null
    /\ exitCode = 2

\* C26: a run whose command is scan and that completes the scan exits with
\* 0, 2 or 3, never with 1; a run with a missing or unknown command exits
\* with 1 and scans nothing.
C26_ExitOneIsNotAScanOutcome ==
    /\ scan # Null => argv.cmd = "scan"
    /\ pc \in {"exited", "failed"} =>
          IF argv.cmd = "scan"
          THEN scan # Null /\ exitCode \in {0, 2, 3}
          ELSE exitCode = 1 /\ scan = Null /\ fileOps = <<>>

\* a yellow scan that named a baseline file that is absent
C26_Witness ==
    /\ cliScanExited
    /\ argv.baselineFlags = <<"--baseline">>
    /\ baselineFile = AbsentFile
    /\ finalResult[1].severity = "yellow"
    /\ exitCode = 2

cliReads == {i \in 1..Len(fileOps) : fileOps[i].op = "read"}

cliWrites == {i \in 1..Len(fileOps) : fileOps[i].op = "write"}

cliUpdateGiven ==
    \E i \in 1..Len(argv.baselineFlags) : argv.baselineFlags[i] = "--update-baseline"

cliFileOpsInOrder ==
    /\ Cardinality(cliReads) <= 1
    /\ Cardinality(cliWrites) <= 1
    /\ \A r \in cliReads : \A w \in cliWrites : r < w
    /\ cliWrites # {} =>
          /\ cliUpdateGiven
          /\ finalResult # Null
          /\ finalResult[1].baselineComparison # Null

\* C27: in one run the baseline file is read at most once, before any write,
\* and written at most once, after the comparison; it is written only when
\* --update-baseline was given, and no step of a run without that flag
\* changes the file.
C27_BaselineReadOnceWrittenOnce ==
    /\ []cliFileOpsInOrder
    /\ [][/\ ~cliUpdateGiven => baselineFile' = baselineFile
          /\ baselineFile' # baselineFile => Len(fileOps') = Len(fileOps) + 1]_vars

\* a run that read the baseline and then rewrote it with different findings
C27_Witness ==
    /\ cliScanExited
    /\ Len(fileOps) = 2
    /\ fileOps[1].op = "read"
    /\ fileOps[2].op = "write"
    /\ baselineData # Null
    /\ baselineFile # BaselineJson(baselineData[1])

\* for each finding of the packages, in the order of allFindings, the package
\* analysis it came from
RECURSIVE PackageOwners(_)
PackageOwners(packages) ==
    IF packages = <<>> THEN <<>>
    ELSE [i \in 1..Len(Head(packages).findings) |-> Head(packages)]
         \o PackageOwners(Tail(packages))

\* C28: the fingerprints the CLI builds carry the name of the package each
\* finding came from: in the baseline a run has written, the fingerprint of a
\* finding of a workspace package names that package, and not "root".
C28_FingerprintsCarryPackageName ==
    (finalResult # Null /\ cliWrites # {}) =>
        LET saved == baselineFile.findings.value
            owners == PackageOwners(finalResult[1].packages)
            n == Len(finalResult[1].findings)
        IN /\ Len(saved) = n + Len(owners)
           /\ \A i \in 1..Len(owners) :
                 owners[i].path # RepoPath =>
                    saved[n + i].packageName = owners[i].name

-----------------------------------------------------------------------------
(* Claims about SpecLoad *)

\* the file holds a JSON object with a string version, a string timestamp
\* and an array findings
HasBaselineShape(content) ==
    /\ content.kind = "json"
    /\ content.isObject
    /\ content.version.type = "string"
    /\ content.timestamp.type = "string"
    /\ content.findings.type = "array"

\* C15: loadBaseline never throws; it returns null when the file is missing,
\* is no JSON or lacks a string version, a string timestamp or an array
\* findings, and the parsed data otherwise.
C15_LoadBaselineNeverThrows ==
    /\ pc # "threw"
    /\ pc = "returned" =>
          IF HasBaselineShape(baselineFile)
          THEN baselineData = Some([version |-> baselineFile.version.value,
                                    timestamp |-> baselineFile.timestamp.value,
                                    findings |-> baselineFile.findings.value])
          ELSE baselineData = Null

\* null for an absent file
C15_Witness ==
    /\ pc = "returned"
    /\ scan = Null
    /\ baselineFile = AbsentFile
    /\ baselineData = Null

-----------------------------------------------------------------------------
(* Claims about SpecSummarize and SpecPackage *)

\* the greatest severity among findings, green when there are none
MaxSeverityOf(findings) ==
    IF \E i \in 1..Len(findings) : findings[i].severity = "red" THEN "red"
    ELSE IF \E i \in 1..Len(findings) : findings[i].severity = "yellow" THEN "yellow"
    ELSE "green"

\* C18: summarizeSeverity is red whenever installOk is false or testOk is
\* false and else the maximum severity over the findings, green when there
\* are none; a null installOk or testOk does not change the result.
C18_SummarizeSeverity ==
    pkSeverity # None =>
        IF pkInstallOk = "false" \/ pkTestOk = "false"
        THEN pkSeverity = "red"
        ELSE pkSeverity = MaxSeverityOf(pkFindings)

\* a yellow package with the install step not run and the test step passed
C18_Witness ==
    /\ pkSeverity = "yellow"
    /\ pkInstallOk = "null"
    /\ pkTestOk = "true"
    /\ Len(pkFindings) = 2

pkOut == pkResult[1]
pkSkipped(step) == step # Null /\ step[1].skipReason # Null

\* C19: when analyzeSinglePackage skips the install dry-run or the test run
\* and records a skipReason, the package severity is the maximum severity of
\* its findings, as if the step had not been requested.
C19_SkippedStepNeverRed ==
    (pkResult # NoResult /\ (pkSkipped(pkOut.install) \/ pkSkipped(pkOut.test)))
        => /\ pkOut.severity = MaxSeverityOf(pkOut.findings)
           /\ pkOut.severity =
                 analyzeSinglePackage(pkFindings,
                     [pkEnv EXCEPT !.runInstall = FALSE, !.runTest = FALSE]).severity

====
